---- MODULE Spec2Model ----
(***************************************************************************)
(* People counter (main.py): per frame, every confirmed track's vertical   *)
(* centre is compared with its previously stored centre; a jump over the   *)
(* band around the counting line increments entered or exited, once per    *)
(* track id.  The live totals are drawn on the frame after the track loop. *)
(***************************************************************************)
EXTENDS Integers, Sequences, FiniteSets, TLC

\* ------------------------------------------------------------------ bounds
\* Longest video (number of frames cap.read() delivers) that is explored.
MaxFrames == 3
\* Staleness window, in frames, that the eviction claim is measured against.
MaxAgeFrames == 1
\* Number of settings API calls that are started in one run.
MaxRequests == 3

\* ------------------------------------------------------- program constants
\* main.py:35  offset = 25
Offset == 25

\* ------------------------------------------------------------------ inputs
\* Frame heights H of the input video (main.py:14); line_y = H // 2.
Heights == {200}
\* Identifiers the tracker hands out.
TrackIds == {1, 2}
\* Top and bottom edge <<t, b>> of a track's box (track.to_ltrb(), main.py:63).
Boxes == {<<40, 80>>, <<50, 101>>, <<90, 130>>, <<100, 150>>, <<120, 161>>}
\* Boxes of the confirmed track of the scripted single-track videos.
ScriptBoxes == {<<30, 70>>, <<40, 80>>, <<80, 120>>, <<90, 130>>, <<120, 160>>, <<130, 170>>}
\* Boxes of the tentative (not confirmed) tracks of the scripted videos.
TentativeBoxes == {<<130, 170>>}
\* Boxes of the videos played next to the dashboard.
LiveBoxes == {<<40, 80>>, <<120, 161>>}
\* Credentials typed into the login form.
Usernames == {"admin", "guest"}
Passwords == {"1234", "0000"}
\* Counts a response of GET /api/live may carry.
LiveCounts == {0, 1, 2}

\* A value that may be absent is a set: None, or Some(v) = {v}.
None == {}
Some(v) == {v}
\* An input video nothing is known about: every cap.read() may deliver any frame.
AnyVideo == [scripted |-> FALSE, frames |-> << >>, stamps |-> << >>]
\* A given video: its frames' tracks, and the frame index ss[k] the source
\* attaches to its k-th frame (cap.read() hands the frames over without it).
Stamped(fs, ss) == [scripted |-> TRUE, frames |-> fs, stamps |-> ss]
\* A given video whose frames arrive in the order of their indices 1, 2, ...
Scripted(fs) == Stamped(fs, [k \in 1..Len(fs) |-> k])

VARIABLES
    video,          \* the input video: AnyVideo, or the sequence of its frames' tracks
    pc,             \* position in people_counter: "read", "track", "done"
    line_y,         \* main.py:34
    offset,         \* main.py:35
    entered,        \* main.py:29
    exited,         \* main.py:30
    track_history,  \* main.py:31  dict track_id -> cy
    counted_ids,    \* main.py:32
    tracks,         \* main.py:54  tracks of the frame being processed
    i,              \* index of the next track of the for loop, main.py:58
    inside,         \* main.py:81
    overlay,        \* the three texts drawn on the frame, main.py:83-88
    frame_index,    \* number of frames read so far (iterations of the while loop)
    last_seen,      \* track_id -> frame_index of its latest write to track_history
    crossings,      \* track_id -> number of increments of entered or exited it caused
    step,           \* record of the latest iteration of the for loop in this frame
    pre,            \* counters and stores at the start of the frame being processed
    logged_in,      \* dashboard.py:8-9  st.session_state.logged_in
    metrics,        \* dashboard.py:50-52  the three metric boxes of the dashboard page
    status,         \* dashboard.py:39  the status line of the page
    response,       \* dashboard.py:43-44  the JSON body the shown metrics were read from
    submitted,      \* dashboard.py:14-17  what the latest press of Login on this page sent
    system_settings,  \* admin_settings.py:24-36  setting_key -> setting_value
    settings_history, \* admin_settings.py:83-95  the audit records, in insertion order
    zone_thresholds,  \* admin_settings.py:56-68  the rows, in insertion order
    upsert_calls,     \* admin_settings.py:407-408  per request: upsert call between its SELECT and its write
    update_calls,     \* admin_settings.py:199-206  per request: update_setting call between SELECT and write
    returned,         \* per request: what its last finished call returned
    started,          \* number of calls started so far
    last_commit,      \* per zone: the data of the upsert call that committed last
    asked,            \* per request: number, operation and target of its latest call
    alert_rules,      \* admin_settings.py:39-53  rule id -> row
    rule_seq,         \* highest id AUTOINCREMENT has given to an alert rule
    rule_updates,     \* admin_settings.py:307-312  per request: update_alert_rule call after its SELECT
    toggle_calls      \* admin_settings.py:370-372  per request: toggle_alert_rule call after its SELECT

counter_vars == <<video, pc, line_y, offset, entered, exited, track_history, counted_ids,
                  tracks, i, inside, overlay, frame_index, last_seen, crossings, step, pre>>
dashboard_vars == <<logged_in, metrics, status, response, submitted>>
zone_setting_vars == <<system_settings, zone_thresholds, upsert_calls, update_calls,
                       last_commit>>
rule_vars == <<alert_rules, rule_seq, rule_updates, toggle_calls>>
settings_vars == <<zone_setting_vars, settings_history, returned, started, asked, rule_vars>>
vars == <<counter_vars, dashboard_vars, settings_vars>>

\* ----------------------------------------------------------------- helpers
Track(id, box, conf) == [track_id |-> id, t |-> box[1], b |-> box[2], confirmed |-> conf]

\* Lists of tracks with pairwise distinct ids, as tracker.update_tracks returns:
\* confirmed tracks at the boxes cs, tentative ones at the boxes us.
FramesOver(ids, cs, us) ==
    LET T == {Track(id, bx, TRUE) : id \in ids, bx \in cs}
             \cup {Track(id, bx, FALSE) : id \in ids, bx \in us}
    IN  {<<>>} \cup {<<a>> : a \in T}
        \cup {s \in {<<a, b>> : a \in T, b \in T} : s[1].track_id # s[2].track_id}

Frames == FramesOver(TrackIds, Boxes, Boxes)
ScriptFrames == FramesOver({1}, ScriptBoxes, TentativeBoxes)
LiveFrames == FramesOver({1}, LiveBoxes, TentativeBoxes)

\* cy = (t + b) // 2                                            main.py:64
Centre(trk) == (trk.t + trk.b) \div 2

\* Mutant of PrevCy: a track seen for the first time starts from position 0.
PrevCyZero(th, id, cy) == IF id \in DOMAIN th THEN th[id] ELSE 0

\* track_history.get(track_id, cy)                              main.py:66
PrevCy(th, id, cy) == IF id \in DOMAIN th THEN th[id] ELSE cy

\* Mutants of Store: only the first position of a track is kept; one position
\* is shared by every stored track.
StoreOnce(th, id, cy) ==
    [k \in DOMAIN th \cup {id} |-> IF k \in DOMAIN th THEN th[k] ELSE cy]
StoreShared(th, id, cy) == [k \in DOMAIN th \cup {id} |-> cy]

\* track_history[track_id] = cy                                 main.py:67
Store(th, id, cy) == [k \in DOMAIN th \cup {id} |-> IF k = id THEN cy ELSE th[k]]

\* Mutants of IsEntering: the near edge of the band counted as outside; a start
\* anywhere short of the far edge; the far edge of the band not required.
IsEnteringInclusive(prev_cy, cy, line, off) == prev_cy <= line - off /\ cy > line + off
IsEnteringFromBand(prev_cy, cy, line, off) == prev_cy <= line + off /\ cy > line + off
IsEnteringNoFarBand(prev_cy, cy, line, off) == prev_cy < line - off /\ cy > line

\* prev_cy < line_y - offset and cy > line_y + offset           main.py:70
IsEntering(prev_cy, cy, line, off) == prev_cy < line - off /\ cy > line + off

\* Mutant of IsExiting: the near edge of the band counted as outside.
IsExitingInclusive(prev_cy, cy, line, off) == prev_cy >= line + off /\ cy < line - off

\* prev_cy > line_y + offset and cy < line_y - offset           main.py:73
IsExiting(prev_cy, cy, line, off) == prev_cy > line + off /\ cy < line - off

\* Mutant of Countable: the counted set is not consulted.
CountableAlways(counted, id) == TRUE

\* May this track id still be counted?  track_id not in counted_ids   main.py:69
Countable(counted, id) == id \notin counted

\* Mutant of TrackStep: an exit also takes one off entered.
TrackStepNet(st, trk, line, off) ==
    LET id      == trk.track_id
        cy      == Centre(trk)
        prev_cy == PrevCy(st.track_history, id, cy)
        goIn    == id \notin st.counted_ids /\ prev_cy < line - off /\ cy > line + off
        goOut   == id \notin st.counted_ids /\ prev_cy > line + off /\ cy < line - off
    IN  [entered       |-> IF goIn THEN st.entered + 1
                           ELSE IF goOut THEN st.entered - 1 ELSE st.entered,
         exited        |-> IF goOut THEN st.exited + 1 ELSE st.exited,
         track_history |-> Store(st.track_history, id, cy),
         counted_ids   |-> IF goIn \/ goOut THEN st.counted_ids \cup {id} ELSE st.counted_ids]

\* Body of the for loop for one confirmed track.                main.py:62-75
\* st = [entered, exited, track_history, counted_ids]
TrackStep(st, trk, line, off) ==
    LET id      == trk.track_id
        cy      == Centre(trk)
        prev_cy == PrevCy(st.track_history, id, cy)
        th      == Store(st.track_history, id, cy)
        goIn    == Countable(st.counted_ids, id) /\ IsEntering(prev_cy, cy, line, off)
        goOut   == Countable(st.counted_ids, id) /\ ~goIn /\ IsExiting(prev_cy, cy, line, off)
    IN  [entered       |-> IF goIn THEN st.entered + 1 ELSE st.entered,
         exited        |-> IF goOut THEN st.exited + 1 ELSE st.exited,
         track_history |-> th,
         counted_ids   |-> IF goIn \/ goOut THEN st.counted_ids \cup {id} ELSE st.counted_ids]

\* One pass of the for loop over a list of tracks.              main.py:58-75
RECURSIVE ProcessTracks(_, _, _, _)
ProcessTracks(st, ts, line, off) ==
    IF ts = <<>> THEN st
    ELSE ProcessTracks(IF Head(ts).confirmed THEN TrackStep(st, Head(ts), line, off) ELSE st,
                       Tail(ts), line, off)

\* Mutant of Inside: occupancy clamped at zero.
InsideClamped(e, x) == IF e - x < 0 THEN 0 ELSE e - x

\* inside = entered - exited                                    main.py:81
Inside(e, x) == e - x

\* The texts "Entered: ..", "Exited: ..", "Inside: .." of the frame.   main.py:83-88
Overlay(e, x, ins) == [entered |-> e, exited |-> x, inside |-> ins]

State == [entered |-> entered, exited |-> exited,
          track_history |-> track_history, counted_ids |-> counted_ids]

\* ------------------------------------------------------- settings inputs
\* Requests the server handles at the same time, one connection each.
ReqIds == {1, 2}
\* X-Username header of a request.
Admins == {"admin"}
\* <zone_id> of /api/zone-thresholds/<zone_id>.
ZoneIds == {"zone_a", "zone_b"}
\* JSON bodies of an upsert request, with and without alert_cooldown.
ThresholdData ==
    {[capacity |-> 50, warning_threshold |-> 70, critical_threshold |-> 90],
     [capacity |-> 80, warning_threshold |-> 70, critical_threshold |-> 90,
      alert_cooldown |-> 60]}
\* Two of the default settings, with the row ids a fresh database gives them.
DefaultSettings == [detection_fps |-> "10", data_retention_days |-> "90"]
SettingRowId == [detection_fps |-> 2, data_retention_days |-> 8]
\* <setting_key> of /api/settings/<setting_key>; the last one has no row.
SettingKeys == DOMAIN DefaultSettings \cup {"no_such_setting"}
\* data['value'] of an update request.
SettingValues == {"20", "30"}
\* The default alert rules of a fresh database.                 admin_settings.py:136-167
\* conditions and actions stand for the JSON texts stored in the columns.
Rule(name, type, conditions, actions, priority, active) ==
    [rule_name |-> name, rule_type |-> type, conditions |-> conditions,
     actions |-> actions, priority |-> priority, is_active |-> active]
DefaultRules ==
    <<Rule("capacity_warning", "threshold", "capacity >= warning_threshold", "email", "medium", 1),
      Rule("capacity_critical", "threshold", "capacity >= critical_threshold", "email,sms,webhook", "high", 1),
      Rule("sudden_crowd_increase", "rate_of_change", "increase > 50% in 5 minutes", "email,webhook", "medium", 1)>>

\* <rule_id> of /api/alert-rules/<rule_id>: a default rule, and the id the
\* first created rule gets.
RuleIdsAsked == {1, Len(DefaultRules) + 1}
\* rule_name of a request body: null, the name of default rule 2, a new name.
RuleNames == {None, Some("capacity_critical"), Some("night_watch")}
\* JSON bodies of a create or update request.
RuleData ==
    {[rule_name |-> nm, rule_type |-> "threshold", conditions |-> "occupancy > 100",
      actions |-> "sms", priority |-> "high"] : nm \in RuleNames}

\* ------------------------------------------------------------------- Init
InitCommon ==
    /\ pc = "read"
    /\ \E h \in Heights : line_y = h \div 2
    /\ entered = 0
    /\ exited = 0
    /\ track_history = << >>
    /\ counted_ids = {}
    /\ tracks = << >>
    /\ i = 1
    /\ inside = None
    /\ overlay = None
    /\ frame_index = 0
    /\ last_seen = << >>
    /\ crossings = [id \in TrackIds |-> 0]
    /\ step = None
    /\ pre = None
    /\ logged_in = FALSE
    /\ metrics = None
    /\ status = ""
    /\ response = None
    /\ submitted = None
    /\ system_settings = DefaultSettings
    /\ settings_history = << >>
    /\ zone_thresholds = << >>
    /\ upsert_calls = [r \in ReqIds |-> None]
    /\ update_calls = [r \in ReqIds |-> None]
    /\ returned = [r \in ReqIds |-> None]
    /\ started = 0
    /\ last_commit = [z \in ZoneIds |-> None]
    /\ asked = [r \in ReqIds |-> None]
    /\ alert_rules = DefaultRules
    /\ rule_seq = Len(DefaultRules)
    /\ rule_updates = [r \in ReqIds |-> None]
    /\ toggle_calls = [r \in ReqIds |-> None]

\* The program as written, on an arbitrary video.
Init ==
    /\ InitCommon
    /\ video = AnyVideo
    /\ offset = Offset

\* Every video of at most MaxFrames frames drawn from fs.
VideosOver(fs) == {Scripted(v) : v \in UNION {[1..n -> fs] : n \in 0..MaxFrames}}

\* The counting loop on a given video of one track, with the band of the
\* program (offset = 25) or with no band at all (offset = 0).  The program
\* itself never runs with offset = 0: that value is the band-free boundary
\* configuration some properties of the counting rule are stated for.
InitScenario ==
    /\ InitCommon
    /\ video \in VideosOver(ScriptFrames)
    /\ offset \in {0, Offset}

\* The program as written on a given short video, next to a dashboard session.
InitLive ==
    /\ InitCommon
    /\ video \in VideosOver(LiveFrames)
    /\ offset = Offset

\* The program as written on a given short video whose source delivers the
\* frames in any order of their indices.
InitStream ==
    /\ InitCommon
    /\ video \in {Stamped(v, ss) : v \in [1..MaxFrames -> LiveFrames],
                                  ss \in [1..MaxFrames -> 1..MaxFrames]}
    /\ offset = Offset

\* ---------------------------------------------------------------- actions
\* ret, frame = cap.read() succeeded; detection and tracking    main.py:40-56
ReadFrame ==
    /\ pc = "read"
    /\ frame_index < MaxFrames
    /\ \E f \in Frames \cup ScriptFrames :
          /\ \/ ~video.scripted /\ f \in Frames
             \/ /\ video.scripted
                /\ frame_index < Len(video.frames)
                /\ f = video.frames[frame_index + 1]
          /\ tracks' = f
    /\ i' = 1
    /\ frame_index' = frame_index + 1
    /\ pre' = Some(State)
    /\ pc' = "track"
    /\ UNCHANGED <<video, line_y, offset, entered, exited, track_history, counted_ids,
                   inside, overlay, last_seen, crossings, step,
                   dashboard_vars, settings_vars>>

\* if not ret: break                                            main.py:41-42, 96-100
EndOfVideo ==
    /\ pc = "read"
    /\ video.scripted => frame_index = Len(video.frames)
    /\ pc' = "done"
    /\ UNCHANGED <<video, line_y, offset, entered, exited, track_history, counted_ids,
                   tracks, i, inside, overlay, frame_index, last_seen, crossings, step, pre,
                   dashboard_vars, settings_vars>>

\* Mutant of SkipUnconfirmed: the position is stored before the track is skipped.
SkipStoresPosition ==
    /\ pc = "track"
    /\ i <= Len(tracks)
    /\ ~tracks[i].confirmed
    /\ i' = i + 1
    /\ step' = Some([track_id |-> tracks[i].track_id, confirmed |-> FALSE])
    /\ track_history' = Store(track_history, tracks[i].track_id, Centre(tracks[i]))
    /\ UNCHANGED <<video, pc, line_y, offset, entered, exited, counted_ids,
                   tracks, inside, overlay, frame_index, last_seen, crossings, pre,
                   dashboard_vars, settings_vars>>

\* if not track.is_confirmed(): continue                        main.py:59-60
SkipUnconfirmed ==
    /\ pc = "track"
    /\ i <= Len(tracks)
    /\ ~tracks[i].confirmed
    /\ i' = i + 1
    /\ step' = Some([track_id |-> tracks[i].track_id, confirmed |-> FALSE])
    /\ UNCHANGED <<video, pc, line_y, offset, entered, exited, track_history, counted_ids,
                   tracks, inside, overlay, frame_index, last_seen, crossings, pre,
                   dashboard_vars, settings_vars>>

\* A confirmed track: store its centre, count a crossing        main.py:62-79
UpdateTrack ==
    /\ pc = "track"
    /\ i <= Len(tracks)
    /\ tracks[i].confirmed
    /\ LET trk == tracks[i]
           id  == trk.track_id
           new == TrackStep(State, trk, line_y, offset)
       IN  /\ entered' = new.entered
           /\ exited' = new.exited
           /\ track_history' = new.track_history
           /\ counted_ids' = new.counted_ids
           /\ last_seen' = Store(last_seen, id, frame_index)
           /\ crossings' = [crossings EXCEPT ![id] =
                              @ + (new.entered - entered) + (new.exited - exited)]
           /\ step' = Some([track_id    |-> id,
                            confirmed   |-> TRUE,
                            known       |-> id \in DOMAIN track_history,
                            prev_cy     |-> PrevCy(track_history, id, Centre(trk)),
                            cy          |-> Centre(trk),
                            was_counted |-> id \in counted_ids,
                            d_entered   |-> new.entered - entered,
                            d_exited    |-> new.exited - exited])
    /\ i' = i + 1
    /\ UNCHANGED <<video, pc, line_y, offset, tracks, inside, overlay, frame_index, pre,
                   dashboard_vars, settings_vars>>

\* Mutants of Publish: the exited total drawn is the one of the start of the
\* frame; a negative occupancy is corrected by lowering exited.
PublishTorn ==
    /\ pc = "track"
    /\ i > Len(tracks)
    /\ \E st \in pre :
          /\ inside' = Some(Inside(entered, exited))
          /\ overlay' = Some(Overlay(entered, st.exited, Inside(entered, exited)))
    /\ \E quit \in BOOLEAN : pc' = IF quit THEN "done" ELSE "read"
    /\ tracks' = << >>
    /\ i' = 1
    /\ step' = None
    /\ pre' = None
    /\ UNCHANGED <<video, line_y, offset, entered, exited, track_history, counted_ids,
                   frame_index, last_seen, crossings, dashboard_vars, settings_vars>>

PublishCorrects ==
    /\ pc = "track"
    /\ i > Len(tracks)
    /\ exited' = IF entered < exited THEN entered ELSE exited
    /\ inside' = Some(Inside(entered, exited'))
    /\ overlay' = Some(Overlay(entered, exited', Inside(entered, exited')))
    /\ \E quit \in BOOLEAN : pc' = IF quit THEN "done" ELSE "read"
    /\ tracks' = << >>
    /\ i' = 1
    /\ step' = None
    /\ pre' = None
    /\ UNCHANGED <<video, line_y, offset, entered, track_history, counted_ids,
                   frame_index, last_seen, crossings, dashboard_vars, settings_vars>>

\* End of the for loop: totals drawn, frame written and shown   main.py:81-94
Publish ==
    /\ pc = "track"
    /\ i > Len(tracks)
    /\ LET ins == Inside(entered, exited)
       IN  /\ inside' = Some(ins)
           /\ overlay' = Some(Overlay(entered, exited, ins))
    /\ \E quit \in BOOLEAN : pc' = IF quit THEN "done" ELSE "read"
    /\ tracks' = << >>
    /\ i' = 1
    /\ step' = None
    /\ pre' = None
    /\ UNCHANGED <<video, line_y, offset, entered, exited, track_history, counted_ids,
                   frame_index, last_seen, crossings, dashboard_vars, settings_vars>>

Next == ReadFrame \/ EndOfVideo \/ SkipUnconfirmed \/ UpdateTrack \/ Publish

Spec == Init /\ [][Next]_vars

SpecScenario == InitScenario /\ [][Next]_vars

SpecStream == InitStream /\ [][Next]_vars

\* --------------------------------------------------------------- dashboard
\* JSON bodies of GET /api/live: an object that has, or lacks, each count.
Responses == UNION {[ks -> LiveCounts] : ks \in SUBSET {"entered", "exited"}}

\* data.get(key, 0)                                             dashboard.py:46-47
Get(data, key) == IF key \in DOMAIN data THEN data[key] ELSE 0

\* entered, exited, inside = entered - exited of one response   dashboard.py:46-52
Metrics(data) ==
    LET e == Get(data, "entered")
        x == Get(data, "exited")
    IN  [entered |-> e, exited |-> x, inside |-> e - x]

\* Mutant of ValidLogin: the password is not looked at.
ValidLoginUserOnly(username, password) == username = "admin"

\* username == "admin" and password == "1234"                   dashboard.py:19
ValidLogin(username, password) == username = "admin" /\ password = "1234"

\* The Login button of the login page.                          dashboard.py:11-24, 62-65
Login ==
    /\ ~logged_in
    /\ \E username \in Usernames, password \in Passwords :
          /\ submitted' = Some([username |-> username, password |-> password])
          /\ IF ValidLogin(username, password)
             THEN logged_in' = TRUE /\ status' = ""
             ELSE logged_in' = logged_in /\ status' = "invalid"
    /\ UNCHANGED <<metrics, response, counter_vars, settings_vars>>

\* The Logout button of the dashboard page.                     dashboard.py:29-31, 62-65
Logout ==
    /\ logged_in
    /\ logged_in' = FALSE
    /\ metrics' = None
    /\ response' = None
    /\ submitted' = None
    /\ status' = ""
    /\ UNCHANGED <<counter_vars, settings_vars>>

\* One round of the polling loop that gets an answer.           dashboard.py:41-54
Poll ==
    /\ logged_in
    /\ \E data \in Responses :
          /\ response' = Some(data)
          /\ metrics' = Some(Metrics(data))
    /\ status' = "live"
    /\ UNCHANGED <<logged_in, submitted, counter_vars, settings_vars>>

\* One round of the polling loop that fails.                    dashboard.py:56-57
PollFailed ==
    /\ logged_in
    /\ status' = "down"
    /\ UNCHANGED <<logged_in, metrics, response, submitted, counter_vars, settings_vars>>

NextLive == Next \/ Login \/ Logout \/ Poll \/ PollFailed

SpecLive == InitLive /\ [][NextLive]_vars

\* ---------------------------------------------------------------- settings
\* Every request opens its own connection; a SELECT runs outside a
\* transaction, the statements that write run in one transaction that ends
\* with conn.commit(), and the database lets one writer in at a time.

Result(ok, msg) == [success |-> ok, message |-> msg]

Idle(r) ==
    /\ upsert_calls[r] = None /\ update_calls[r] = None
    /\ rule_updates[r] = None /\ toggle_calls[r] = None

\* Number, operation, target (a key or zone, or a rule id) and, for alert
\* rules, the rule_name of the body of a call.
Call(n, op, key, id, name) == [n |-> n, op |-> op, key |-> key, id |-> id, name |-> name]

\* Row numbers of the rows of a zone.
ZoneRows(zt, z) == {k \in 1..Len(zt) : zt[k].zone_id = z}

\* threshold_data.get('alert_cooldown', 300)                    admin_settings.py:420, 436
Cooldown(data) == IF "alert_cooldown" \in DOMAIN data THEN data["alert_cooldown"] ELSE 300

\* UPDATE zone_thresholds SET ... WHERE zone_id = ?              admin_settings.py:412-424
UpdateZone(zt, z, data, username) ==
    [k \in 1..Len(zt) |->
        IF zt[k].zone_id = z
        THEN [zt[k] EXCEPT !.capacity = data.capacity,
                           !.warning_threshold = data.warning_threshold,
                           !.critical_threshold = data.critical_threshold,
                           !.alert_cooldown = Cooldown(data),
                           !.updated_by = username]
        ELSE zt[k]]

\* INSERT INTO zone_thresholds ...                               admin_settings.py:427-439
InsertZone(zt, z, data, username) ==
    Append(zt, [id |-> Len(zt) + 1, zone_id |-> z,
                capacity |-> data.capacity,
                warning_threshold |-> data.warning_threshold,
                critical_threshold |-> data.critical_threshold,
                alert_cooldown |-> Cooldown(data),
                is_active |-> 1,
                updated_by |-> username])

\* upsert_zone_threshold up to fetchone()                        admin_settings.py:403-408
UpsertSelect(r) ==
    /\ Idle(r)
    /\ started < MaxRequests
    /\ started' = started + 1
    /\ \E zone_id \in ZoneIds, threshold_data \in ThresholdData, username \in Admins :
          /\ upsert_calls' = [upsert_calls EXCEPT ![r] =
                Some([zone_id |-> zone_id, threshold_data |-> threshold_data,
                      username |-> username,
                      existing |-> ZoneRows(zone_thresholds, zone_id) # {}])]
          /\ asked' = [asked EXCEPT ![r] =
                          Some(Call(started + 1, "upsert_zone_threshold", zone_id, 0, None))]
    /\ returned' = [returned EXCEPT ![r] = None]
    /\ UNCHANGED <<system_settings, settings_history, zone_thresholds, update_calls,
                   last_commit, rule_vars, counter_vars, dashboard_vars>>

\* upsert_zone_threshold from 'if existing' to the return        admin_settings.py:410-443
UpsertWrite(r) ==
    /\ \E c \in upsert_calls[r] :
          /\ zone_thresholds' =
                IF c.existing
                THEN UpdateZone(zone_thresholds, c.zone_id, c.threshold_data, c.username)
                ELSE InsertZone(zone_thresholds, c.zone_id, c.threshold_data, c.username)
          /\ last_commit' = [last_commit EXCEPT ![c.zone_id] = Some(c.threshold_data)]
    /\ upsert_calls' = [upsert_calls EXCEPT ![r] = None]
    /\ returned' = [returned EXCEPT ![r] =
                        Some(Result(TRUE, "Zone threshold updated successfully"))]
    /\ UNCHANGED <<system_settings, settings_history, update_calls, started, asked,
                   rule_vars, counter_vars, dashboard_vars>>

\* Mutant of UpdateSettingSelect: a key without a row gets one.
UpdateSettingCreates(r) ==
    /\ Idle(r)
    /\ started < MaxRequests
    /\ started' = started + 1
    /\ \E setting_key \in SettingKeys, new_value \in SettingValues, username \in Admins :
          /\ asked' = [asked EXCEPT ![r] =
                          Some(Call(started + 1, "update_setting", setting_key, 0, None))]
          /\ IF setting_key \in DOMAIN system_settings
             THEN /\ update_calls' = [update_calls EXCEPT ![r] =
                         Some([setting_key |-> setting_key, new_value |-> new_value,
                               username |-> username,
                               old_value |-> system_settings[setting_key]])]
                  /\ returned' = [returned EXCEPT ![r] = None]
                  /\ system_settings' = system_settings
             ELSE /\ update_calls' = update_calls
                  /\ returned' = [returned EXCEPT ![r] =
                                      Some(Result(FALSE, "Setting not found"))]
                  /\ system_settings' =
                        [k \in DOMAIN system_settings \cup {setting_key} |->
                            IF k = setting_key THEN new_value ELSE system_settings[k]]
    /\ UNCHANGED <<settings_history, zone_thresholds, upsert_calls,
                   last_commit, rule_vars, counter_vars, dashboard_vars>>

\* update_setting up to 'old_value = result[0]', or to the       admin_settings.py:195-206
\* early return for a key without a row.
UpdateSettingSelect(r) ==
    /\ Idle(r)
    /\ started < MaxRequests
    /\ started' = started + 1
    /\ \E setting_key \in SettingKeys, new_value \in SettingValues, username \in Admins :
          /\ asked' = [asked EXCEPT ![r] =
                          Some(Call(started + 1, "update_setting", setting_key, 0, None))]
          /\ IF setting_key \in DOMAIN system_settings
             THEN /\ update_calls' = [update_calls EXCEPT ![r] =
                         Some([setting_key |-> setting_key, new_value |-> new_value,
                               username |-> username,
                               old_value |-> system_settings[setting_key]])]
                  /\ returned' = [returned EXCEPT ![r] = None]
             ELSE /\ update_calls' = update_calls
                  /\ returned' = [returned EXCEPT ![r] =
                                      Some(Result(FALSE, "Setting not found"))]
    /\ UNCHANGED <<system_settings, settings_history, zone_thresholds, upsert_calls,
                   last_commit, rule_vars, counter_vars, dashboard_vars>>

\* update_setting: UPDATE, INSERT INTO settings_history, commit  admin_settings.py:208-225
UpdateSettingWrite(r) ==
    /\ \E c \in update_calls[r] :
          /\ system_settings' = [system_settings EXCEPT ![c.setting_key] = c.new_value]
          /\ settings_history' = Append(settings_history,
                [setting_type |-> "system_setting",
                 setting_id   |-> SettingRowId[c.setting_key],
                 old_value    |-> c.old_value,
                 new_value    |-> c.new_value,
                 changed_by   |-> c.username])
    /\ update_calls' = [update_calls EXCEPT ![r] = None]
    /\ returned' = [returned EXCEPT ![r] =
                        Some(Result(TRUE, "Setting updated successfully"))]
    /\ UNCHANGED <<zone_thresholds, upsert_calls, started, last_commit, asked,
                   rule_vars, counter_vars, dashboard_vars>>

NextSettings ==
    \E r \in ReqIds :
        \/ UpsertSelect(r)
        \/ UpsertWrite(r)
        \/ UpdateSettingSelect(r)
        \/ UpdateSettingWrite(r)

SpecSettings == Init /\ [][NextSettings]_vars

\* -------------------------------------------------------------- alert rules
\* Mutant of NameRejected: only NOT NULL is enforced.
NameRejectedNullOnly(rules, id, name) == name = None

\* rule_name TEXT UNIQUE NOT NULL: may the row id not take this name?   admin_settings.py:42
NameRejected(rules, id, name) ==
    \/ name = None
    \/ \E k \in DOMAIN rules \ {id} : rules[k].rule_name \in name

\* json.dumps of a row and of a request body, as the text that is logged.
DumpsRule(row) ==
    row.rule_name \o "|" \o row.rule_type \o "|" \o row.conditions \o "|" \o row.actions
        \o "|" \o row.priority \o "|" \o (IF row.is_active = 1 THEN "1" ELSE "0")
DumpsData(data) ==
    (IF data.rule_name = None THEN "null" ELSE CHOOSE nm \in data.rule_name : TRUE)
        \o "|" \o data.rule_type \o "|" \o data.conditions \o "|" \o data.actions
        \o "|" \o data.priority

\* Mutant of NewStatus: a toggle only ever deactivates.
NewStatusOff(current_status) == 0

\* new_status = 0 if current_status else 1                       admin_settings.py:372
NewStatus(current_status) == IF current_status # 0 THEN 0 ELSE 1

\* UPDATE alert_rules SET is_active = ? WHERE id = ?             admin_settings.py:374-378
SetActive(rules, id, new_status) ==
    [k \in DOMAIN rules |-> IF k = id THEN [rules[k] EXCEPT !.is_active = new_status]
                            ELSE rules[k]]

\* One toggle_alert_rule call that no other call overlaps.      admin_settings.py:365-383
ToggleRule(rules, id) == SetActive(rules, id, NewStatus(rules[id].is_active))

\* create_alert_rule; the rule id it returns is left out.        admin_settings.py:269-299
CreateRule(r) ==
    /\ Idle(r)
    /\ started < MaxRequests
    /\ started' = started + 1
    /\ \E rule_data \in RuleData, username \in Admins :
          /\ asked' = [asked EXCEPT ![r] =
                          Some(Call(started + 1, "create_alert_rule", "", 0,
                               rule_data.rule_name))]
          /\ IF NameRejected(alert_rules, 0, rule_data.rule_name)
             THEN /\ returned' = [returned EXCEPT ![r] =
                                      Some(Result(FALSE, "Rule name already exists"))]
                  /\ UNCHANGED <<alert_rules, rule_seq>>
             ELSE /\ alert_rules' =
                        [k \in DOMAIN alert_rules \cup {rule_seq + 1} |->
                            IF k = rule_seq + 1
                            THEN Rule(CHOOSE nm \in rule_data.rule_name : TRUE,
                                      rule_data.rule_type, rule_data.conditions,
                                      rule_data.actions, rule_data.priority, 1)
                            ELSE alert_rules[k]]
                  /\ rule_seq' = rule_seq + 1
                  /\ returned' = [returned EXCEPT ![r] =
                                      Some(Result(TRUE, "Alert rule created successfully"))]
    /\ UNCHANGED <<zone_setting_vars, settings_history, rule_updates, toggle_calls,
                   counter_vars, dashboard_vars>>

\* update_alert_rule up to the 'Rule not found' test             admin_settings.py:303-312
UpdateRuleSelect(r) ==
    /\ Idle(r)
    /\ started < MaxRequests
    /\ started' = started + 1
    /\ \E rule_id \in RuleIdsAsked, rule_data \in RuleData, username \in Admins :
          /\ asked' = [asked EXCEPT ![r] =
                          Some(Call(started + 1, "update_alert_rule", "", rule_id,
                               rule_data.rule_name))]
          /\ IF rule_id \in DOMAIN alert_rules
             THEN /\ rule_updates' = [rule_updates EXCEPT ![r] =
                         Some([rule_id |-> rule_id, rule_data |-> rule_data,
                               username |-> username, old_rule |-> alert_rules[rule_id]])]
                  /\ returned' = [returned EXCEPT ![r] = None]
             ELSE /\ rule_updates' = rule_updates
                  /\ returned' = [returned EXCEPT ![r] = Some(Result(FALSE, "Rule not found"))]
    /\ UNCHANGED <<zone_setting_vars, settings_history, alert_rules, rule_seq, toggle_calls,
                   counter_vars, dashboard_vars>>

\* update_alert_rule: UPDATE, INSERT INTO settings_history,      admin_settings.py:314-344
\* commit, or the exception of the UPDATE.
UpdateRuleWrite(r) ==
    /\ \E c \in rule_updates[r] :
          IF c.rule_id \in DOMAIN alert_rules
             /\ NameRejected(alert_rules, c.rule_id, c.rule_data.rule_name)
          THEN /\ returned' = [returned EXCEPT ![r] =
                                   Some(Result(FALSE, "constraint failed: alert_rules.rule_name"))]
               /\ UNCHANGED <<alert_rules, settings_history>>
          ELSE /\ alert_rules' =
                     [k \in DOMAIN alert_rules |->
                         IF k = c.rule_id
                         THEN [alert_rules[k] EXCEPT
                                  !.rule_name = CHOOSE nm \in c.rule_data.rule_name : TRUE,
                                  !.rule_type = c.rule_data.rule_type,
                                  !.conditions = c.rule_data.conditions,
                                  !.actions = c.rule_data.actions,
                                  !.priority = c.rule_data.priority]
                         ELSE alert_rules[k]]
               /\ settings_history' = Append(settings_history,
                     [setting_type |-> "alert_rule",
                      setting_id   |-> c.rule_id,
                      old_value    |-> DumpsRule(c.old_rule),
                      new_value    |-> DumpsData(c.rule_data),
                      changed_by   |-> c.username])
               /\ returned' = [returned EXCEPT ![r] =
                                   Some(Result(TRUE, "Alert rule updated successfully"))]
    /\ rule_updates' = [rule_updates EXCEPT ![r] = None]
    /\ UNCHANGED <<zone_setting_vars, started, asked, rule_seq, toggle_calls,
                   counter_vars, dashboard_vars>>

\* delete_alert_rule: DELETE, INSERT INTO settings_history, commit   admin_settings.py:346-363
DeleteRule(r) ==
    /\ Idle(r)
    /\ started < MaxRequests
    /\ started' = started + 1
    /\ \E rule_id \in RuleIdsAsked, username \in Admins :
          /\ asked' = [asked EXCEPT ![r] =
                          Some(Call(started + 1, "delete_alert_rule", "", rule_id, None))]
          /\ alert_rules' = [k \in DOMAIN alert_rules \ {rule_id} |-> alert_rules[k]]
          /\ settings_history' = Append(settings_history,
                [setting_type  |-> "alert_rule",
                 setting_id    |-> rule_id,
                 changed_by    |-> username,
                 change_reason |-> "Rule deleted"])
    /\ returned' = [returned EXCEPT ![r] =
                        Some(Result(TRUE, "Alert rule deleted successfully"))]
    /\ UNCHANGED <<zone_setting_vars, rule_seq, rule_updates, toggle_calls,
                   counter_vars, dashboard_vars>>

\* toggle_alert_rule up to 'current_status = cursor.fetchone()[0]';   admin_settings.py:367-372
\* without a row fetchone() is None and the subscript raises a TypeError
\* that nothing catches: the request ends as a server error.
ToggleSelect(r) ==
    /\ Idle(r)
    /\ started < MaxRequests
    /\ started' = started + 1
    /\ \E rule_id \in RuleIdsAsked, username \in Admins :
          /\ asked' = [asked EXCEPT ![r] =
                          Some(Call(started + 1, "toggle_alert_rule", "", rule_id, None))]
          /\ IF rule_id \in DOMAIN alert_rules
             THEN /\ toggle_calls' = [toggle_calls EXCEPT ![r] =
                         Some([rule_id |-> rule_id, username |-> username,
                               current_status |-> alert_rules[rule_id].is_active])]
                  /\ returned' = [returned EXCEPT ![r] = None]
             ELSE /\ toggle_calls' = toggle_calls
                  /\ returned' = [returned EXCEPT ![r] = Some(Result(FALSE, "TypeError"))]
    /\ UNCHANGED <<zone_setting_vars, settings_history, alert_rules, rule_seq, rule_updates,
                   counter_vars, dashboard_vars>>

\* toggle_alert_rule: UPDATE, commit, return                     admin_settings.py:372-383
ToggleWrite(r) ==
    /\ \E c \in toggle_calls[r] :
          LET new_status == NewStatus(c.current_status)
          IN  /\ alert_rules' = SetActive(alert_rules, c.rule_id, new_status)
              /\ returned' = [returned EXCEPT ![r] =
                    Some(Result(TRUE, IF new_status # 0 THEN "Rule activated"
                                      ELSE "Rule deactivated"))]
    /\ toggle_calls' = [toggle_calls EXCEPT ![r] = None]
    /\ UNCHANGED <<zone_setting_vars, settings_history, started, asked, rule_seq,
                   rule_updates, counter_vars, dashboard_vars>>

NextRules ==
    \E r \in ReqIds :
        \/ CreateRule(r)
        \/ UpdateRuleSelect(r)
        \/ UpdateRuleWrite(r)
        \/ DeleteRule(r)
        \/ ToggleSelect(r)
        \/ ToggleWrite(r)

SpecRules == Init /\ [][NextRules]_vars


\* ================================================================== claims
\* The closed band [line_y - offset, line_y + offset] and its two sides.
InBand(y) == line_y - offset <= y /\ y <= line_y + offset
Above(y) == y < line_y - offset
Below(y) == y > line_y + offset

\* The centre at which track id is observed, confirmed, in frame f: None or Some.
SeenAt(f, id) == {Centre(f[j]) : j \in {k \in 1..Len(f) : f[k].track_id = id /\ f[k].confirmed}}

\* C1: whatever the frames are, a track id causes at most one increment of
\* entered plus exited in the whole run.
C1_AtMostOncePerTrack == \A id \in TrackIds : crossings[id] <= 1

\* An already counted track jumps over the whole band again and is not counted.
C1_Witness ==
    \E s \in step :
        /\ s.confirmed
        /\ s.was_counted
        /\ \/ Above(s.prev_cy) /\ Below(s.cy)
           \/ Below(s.prev_cy) /\ Above(s.cy)
        /\ crossings[s.track_id] = 1

\* C2: for a confirmed, not yet counted track with a stored previous centre p
\* and current centre c, entered alone grows by one iff p < line - band and
\* c > line + band, exited alone grows by one iff p > line + band and
\* c < line - band, and otherwise neither counter changes.
C2_CrossingDecision ==
    \A s \in step :
        (s.confirmed /\ s.known /\ ~s.was_counted) =>
            LET p   == s.prev_cy
                c   == s.cy
                fwd == p < line_y - offset /\ c > line_y + offset
                bwd == p > line_y + offset /\ c < line_y - offset
            IN  /\ (s.d_entered = 1 /\ s.d_exited = 0) <=> fwd
                /\ (s.d_exited = 1 /\ s.d_entered = 0) <=> bwd
                /\ ~(fwd \/ bwd) => (s.d_entered = 0 /\ s.d_exited = 0)

\* A stored centre above the band, a current centre below it: entered grew.
C2_Witness ==
    \E s \in step :
        /\ s.confirmed /\ s.known /\ ~s.was_counted
        /\ s.prev_cy < line_y - offset /\ s.cy > line_y + offset
        /\ s.d_entered = 1

\* Track id was seen outside the band in frame m, inside the band in every
\* frame m+1 .. k-1 (at least one), and is outside on the other side in frame k.
Traversal(fs, k, id, down) ==
    \E m \in 1..(k - 2) :
        /\ \A n \in m..k : SeenAt(fs[n], id) # None
        /\ \A y \in SeenAt(fs[m], id) : IF down THEN Above(y) ELSE Below(y)
        /\ \A n \in (m + 1)..(k - 1) : \A y \in SeenAt(fs[n], id) : InBand(y)
        /\ \A y \in SeenAt(fs[k], id) : IF down THEN Below(y) ELSE Above(y)

\* C3 as stated, for the band of the program (offset = 25): a not yet counted
\* track that went from one side into the band and from there to the other
\* side is counted once, in its direction of travel, in the frame where it lands.
C3_TraversalCounted ==
    \A s \in step :
        (s.confirmed /\ ~s.was_counted /\ video.scripted /\ offset = Offset) =>
            /\ Traversal(video.frames, frame_index, s.track_id, TRUE)
                  => (s.d_entered = 1 /\ s.d_exited = 0)
            /\ Traversal(video.frames, frame_index, s.track_id, FALSE)
                  => (s.d_exited = 1 /\ s.d_entered = 0)

\* C3 amended: such a track is not counted in the frame where it lands: the
\* step that starts inside the band changes neither counter.
C3_TraversalNotCounted ==
    \A s \in step :
        ( /\ s.confirmed /\ ~s.was_counted /\ video.scripted
          /\ \E down \in BOOLEAN : Traversal(video.frames, frame_index, s.track_id, down) )
            => (s.d_entered = 0 /\ s.d_exited = 0 /\ s.track_id \notin counted_ids)

\* A track has just landed below the band after frames inside it.
C3_Witness ==
    \E s \in step :
        /\ s.confirmed /\ ~s.was_counted /\ video.scripted
        /\ Traversal(video.frames, frame_index, s.track_id, TRUE)
        /\ offset = Offset

\* C4: a step whose stored previous centre lies in the closed band
\* [line - band, line + band] increments neither entered nor exited.
C4_NoCrossingFromBand ==
    \A s \in step :
        (s.confirmed /\ s.known /\ line_y - offset <= s.prev_cy /\ s.prev_cy <= line_y + offset)
            => (s.d_entered = 0 /\ s.d_exited = 0)

\* With no band, a track stored exactly on the line moves off it.
C4_Witness ==
    \E s \in step :
        /\ s.confirmed /\ s.known /\ ~s.was_counted
        /\ offset = 0
        /\ s.prev_cy = line_y
        /\ s.cy # line_y

\* The frame loop is between two frames, or over, and a frame was processed.
FrameProcessed == pc # "track" /\ frame_index > 0

\* C5: after every processed frame the published inside equals entered - exited
\* of that frame, negative values included, and the totals drawn are the
\* counters; the dashboard's inside is entered - exited of one response.
C5_Conservation ==
    /\ FrameProcessed =>
          /\ inside = {entered - exited}
          /\ overlay = {[entered |-> entered, exited |-> exited, inside |-> entered - exited]}
    /\ \A m \in metrics : m.inside = m.entered - m.exited

\* A frame left more exits than entries, and the dashboard shows a negative inside.
C5_Witness ==
    /\ FrameProcessed
    /\ inside = {-1}
    /\ \E m \in metrics : m.inside < 0

\* Every order in which the tracks of a list can be visited.
VisitOrders(ts) ==
    LET n == Len(ts)
    IN  {[k \in 1..n |-> ts[q[k]]] :
            q \in {r \in [1..n -> 1..n] : \A a, b \in 1..n : a # b => r[a] # r[b]}}

\* The for loop has visited every track of the frame.
LoopDone == pc = "track" /\ i > Len(tracks)

\* C6: the counters, the counted set and the stored positions at the end of
\* the for loop are those of every other visiting order of the frame's tracks.
C6_OrderIndependence ==
    LoopDone =>
        \A st \in pre : \A ts \in VisitOrders(tracks) :
            ProcessTracks(st, ts, line_y, offset) = State

\* Two confirmed tracks in one frame, one entering and one exiting.
C6_Witness ==
    /\ LoopDone
    /\ Len(tracks) = 2
    /\ tracks[1].confirmed /\ tracks[2].confirmed
    /\ \E st \in pre : entered = st.entered + 1 /\ exited = st.exited + 1

\* The video of one confirmed track, id 1, seen at the given boxes.
OneTrackVideo(boxes) == Scripted([k \in 1..Len(boxes) |-> <<Track(1, boxes[k], TRUE)>>])

\* Centres 60, 140 and 60, 110, 60 (C7) and 50, 150, 50 (C8).
Video_60_140 == OneTrackVideo(<<(<<40, 80>>), (<<120, 160>>)>>)
Video_60_110_60 == OneTrackVideo(<<(<<40, 80>>), (<<90, 130>>), (<<40, 80>>)>>)
Video_50_150_50 == OneTrackVideo(<<(<<30, 70>>), (<<130, 170>>), (<<30, 70>>)>>)

\* Every confirmed centre of track id in the first k frames of fs.
CentresSeen(fs, k, id) == UNION {SeenAt(fs[n], id) : n \in 1..k}

\* C7: with line 100 and band 25 the track seen at 60, 140 is counted once as
\* entered and never as exited; the track seen at 60, 110, 60 is never counted;
\* and a track that was never seen beyond line + band has not been counted as
\* entered.
C7_Hysteresis ==
    /\ (video = Video_60_140 /\ line_y = 100 /\ offset = 25) =>
          /\ exited = 0
          /\ entered = IF frame_index = 2 /\ (pc # "track" \/ i > 1) THEN 1 ELSE 0
    /\ (video = Video_60_110_60 /\ line_y = 100 /\ offset = 25) =>
          (entered = 0 /\ exited = 0 /\ counted_ids = {})
    /\ video.scripted =>
          ((\A y \in CentresSeen(video.frames, frame_index, 1) : y <= line_y + offset)
              => entered = 0)

\* The run on 60, 140 is over with one entry.
C7_Witness ==
    /\ video = Video_60_140 /\ line_y = 100 /\ offset = 25
    /\ pc = "done" /\ frame_index = 2
    /\ entered = 1 /\ exited = 0

\* C8: with line 100 and band 0 (and with the program's band of 25 alike) the
\* track seen at 50, 150, 50 leaves entered = 0 after frame 1, entered = 1
\* after frame 2, and entered = 1, exited = 0, inside = 1 after frame 3.
C8_EndToEnd ==
    (video = Video_50_150_50 /\ line_y = 100 /\ offset \in {0, Offset} /\ FrameProcessed) =>
        /\ frame_index = 1 => (entered = 0 /\ exited = 0 /\ inside = {0})
        /\ frame_index = 2 => (entered = 1 /\ exited = 0 /\ inside = {1})
        /\ frame_index = 3 => (entered = 1 /\ exited = 0 /\ inside = {1})

\* The three frames are processed and the return trip was seen.
C8_Witness ==
    /\ video = Video_50_150_50 /\ line_y = 100 /\ offset = 0
    /\ FrameProcessed /\ frame_index = 3
    /\ track_history[1] = 50
    /\ entered = 1 /\ exited = 0 /\ inside = {1}

\* C9 as stated: whenever the published inside is negative the snapshot
\* carries an anomaly flag that is true, on the frame and on the dashboard.
C9_AnomalyFlagged ==
    /\ \A o \in overlay : o.inside < 0 => ("anomaly" \in DOMAIN o /\ o.anomaly)
    /\ \A m \in metrics : m.inside < 0 => ("anomaly" \in DOMAIN m /\ m.anomaly)

\* C10 as stated: once a frame is processed, no stored track was last seen
\* more than MaxAgeFrames frames ago.
C10_StaleEvicted ==
    FrameProcessed =>
        \A id \in DOMAIN track_history : frame_index - last_seen[id] <= MaxAgeFrames

\* C11: entered and exited are 0 before the first frame; every step leaves
\* each of them equal or one higher, never both higher, and never lowers or
\* resets one.
C11_CounterLifecycle ==
    /\ entered = 0 /\ exited = 0
    /\ [][ /\ entered' \in {entered, entered + 1}
           /\ exited' \in {exited, exited + 1}
           /\ entered' = entered \/ exited' = exited ]_vars

\* Both counters have grown, and a later frame is being processed.
C11_Witness == entered = 1 /\ exited = 1 /\ frame_index = MaxFrames /\ pc = "track"

\* C12: the loop iteration of a track that is not confirmed leaves entered,
\* exited, the counted set and every stored position as they are.
C12_UnconfirmedNoOp ==
    [][ (pc = "track" /\ i <= Len(tracks) /\ ~tracks[i].confirmed) =>
            /\ entered' = entered /\ exited' = exited
            /\ counted_ids' = counted_ids
            /\ track_history' = track_history ]_vars

\* A tentative track was skipped although its box lies across the band from
\* the stored position of its id, which is not counted yet.
C12_Witness ==
    \E s \in step :
        /\ ~s.confirmed
        /\ s.track_id \in DOMAIN track_history
        /\ s.track_id \notin counted_ids
        /\ Above(track_history[s.track_id])
        /\ Below(Centre(tracks[i - 1]))

\* The frame just read carries an index that is not greater than the index of
\* an earlier frame.
OutOfOrder == \E k \in 1..(frame_index - 1) : video.stamps[frame_index] <= video.stamps[k]

\* C13 as stated: a frame whose index is not greater than the last processed
\* one is dropped: at the end of its track loop the counters, the counted set
\* and the stored positions are those of the start of the frame.
C13_OutOfOrderDropped ==
    (LoopDone /\ video.scripted /\ OutOfOrder) => \A st \in pre : State = st

C15_SnapshotReadOnly ==
    [][ ((pc = "track" /\ i > Len(tracks)) \/ metrics' # metrics \/ response' # response) =>
            /\ entered' = entered /\ exited' = exited
            /\ counted_ids' = counted_ids
            /\ track_history' = track_history ]_vars

\* A negative occupancy has been published and a response is shown.
C15_Witness ==
    /\ FrameProcessed
    /\ overlay = {[entered |-> 0, exited |-> 1, inside |-> -1]}
    /\ exited = 1
    /\ metrics # None

\* C16: the first confirmed sighting of a track id changes no counter and
\* records the position of that id.
C16_FirstSighting ==
    \A s \in step :
        (s.confirmed /\ ~s.known) =>
            /\ s.d_entered = 0 /\ s.d_exited = 0
            /\ crossings[s.track_id] = 0
            /\ s.track_id \in DOMAIN track_history
            /\ track_history[s.track_id] = s.cy

\* A track is first seen far below the band.
C16_Witness ==
    \E s \in step : s.confirmed /\ ~s.known /\ s.cy > line_y + offset /\ entered = 0

\* C17: at the end of the track loop the stored position of every confirmed
\* track of the frame is the centre observed in that frame.
C17_EveryUpdateStored ==
    LoopDone =>
        \A j \in 1..Len(tracks) :
            tracks[j].confirmed =>
                /\ tracks[j].track_id \in DOMAIN track_history
                /\ track_history[tracks[j].track_id] = (tracks[j].t + tracks[j].b) \div 2

\* An already counted track was seen at a new position.
C17_Witness ==
    /\ LoopDone
    /\ \E j \in 1..Len(tracks) : \E st \in pre :
          /\ tracks[j].confirmed
          /\ tracks[j].track_id \in st.counted_ids
          /\ st.track_history[tracks[j].track_id] # track_history[tracks[j].track_id]

\* C18: entered + exited is the number of counted track ids, and every counted
\* id has a stored position.
C18_CountedSet ==
    /\ entered + exited = Cardinality(counted_ids)
    /\ counted_ids \subseteq DOMAIN track_history

\* Two tracks are counted, one in each direction.
C18_Witness == Cardinality(counted_ids) = 2 /\ entered = 1 /\ exited = 1

\* C19 as stated: whatever the interleaving of the upsert calls, a zone has at
\* most one row, and the row carries the data of the call that committed last.
C19_UpsertOneRow ==
    \A z \in ZoneIds :
        /\ Cardinality(ZoneRows(zone_thresholds, z)) <= 1
        /\ \A k \in ZoneRows(zone_thresholds, z) : \A d \in last_commit[z] :
              /\ zone_thresholds[k].capacity = d.capacity
              /\ zone_thresholds[k].warning_threshold = d.warning_threshold
              /\ zone_thresholds[k].critical_threshold = d.critical_threshold

\* Row numbers of the audit records of a setting.
HistoryOf(key) ==
    {k \in 1..Len(settings_history) :
        /\ settings_history[k].setting_type = "system_setting"
        /\ settings_history[k].setting_id = SettingRowId[key]}

\* C20 as stated: the audit records of a setting form a chain from its first
\* value to its stored value: the old_value of a record is the new_value of
\* the record before it (the initial value for the first record), and the
\* new_value of the last record is the stored value.
C20_AuditChain ==
    \A key \in DOMAIN DefaultSettings :
        \A k \in HistoryOf(key) :
            LET before == {j \in HistoryOf(key) : j < k}
                prev   == IF before = {} THEN 0
                          ELSE CHOOSE j \in before : \A j2 \in before : j2 <= j
            IN  /\ settings_history[k].old_value =
                      IF prev = 0 THEN DefaultSettings[key]
                      ELSE settings_history[prev].new_value
                /\ (\A j \in HistoryOf(key) : j <= k) =>
                      settings_history[k].new_value = system_settings[key]

\* C21: a call of update_setting for a key that has no row returns
\* (False, 'Setting not found'), goes no further, and leaves system_settings
\* and settings_history as they are; the set of setting keys never changes.
C21_UnknownSetting ==
    /\ [][ \A r \in ReqIds :
              (/\ asked'[r] # asked[r]
               /\ \E a \in asked'[r] : a.op = "update_setting"
                                       /\ a.key \notin DOMAIN system_settings) =>
                  /\ returned'[r] = {[success |-> FALSE, message |-> "Setting not found"]}
                  /\ update_calls'[r] = {}
                  /\ system_settings' = system_settings
                  /\ settings_history' = settings_history ]_vars
    /\ [](DOMAIN system_settings = DOMAIN DefaultSettings)

\* An unknown key was refused after other updates had been logged.
C21_Witness ==
    \E r \in ReqIds :
        /\ returned[r] = {[success |-> FALSE, message |-> "Setting not found"]}
        /\ \E a \in asked[r] : a.key \notin DOMAIN system_settings
        /\ Len(settings_history) > 0

\* The operations that address an alert rule by its id.
ByRuleId == {"update_alert_rule", "delete_alert_rule", "toggle_alert_rule"}

Failed(r) == \E res \in returned[r] : ~res.success

\* C22 as stated: a call of update_alert_rule, delete_alert_rule or
\* toggle_alert_rule for a rule id without a row ends in a failure and leaves
\* alert_rules and settings_history as they are.
C22_MissingRuleRefused ==
    [][ \A r \in ReqIds :
           (/\ asked'[r] # asked[r]
            /\ \E a \in asked'[r] : a.op \in ByRuleId /\ a.id \notin DOMAIN alert_rules) =>
               /\ \E res \in returned'[r] : ~res.success
               /\ alert_rules' = alert_rules
               /\ settings_history' = settings_history ]_vars

\* Would the name nm (null when empty) break UNIQUE NOT NULL if row id took it?
Clashes(nm, id) ==
    \/ nm = {}
    \/ \E k \in DOMAIN alert_rules : k # id /\ alert_rules[k].rule_name \in nm

\* C23: no two alert rules share a rule_name; a create_alert_rule whose name
\* is null or taken, and an update_alert_rule that would give an existing row
\* a null or taken name, end in a failure and leave alert_rules and
\* settings_history as they are.
C23_UniqueRuleNames ==
    /\ [](\A j, k \in DOMAIN alert_rules :
              j # k => alert_rules[j].rule_name # alert_rules[k].rule_name)
    /\ [][ \A r \in ReqIds :
              /\ (/\ asked'[r] # asked[r]
                  /\ \E a \in asked'[r] : a.op = "create_alert_rule" /\ Clashes(a.name, 0)) =>
                     /\ \E res \in returned'[r] : ~res.success
                     /\ alert_rules' = alert_rules
                     /\ settings_history' = settings_history
              /\ \A c \in rule_updates[r] :
                    (/\ rule_updates'[r] = {}
                     /\ c.rule_id \in DOMAIN alert_rules
                     /\ Clashes(c.rule_data.rule_name, c.rule_id)) =>
                        /\ \E res \in returned'[r] : ~res.success
                        /\ alert_rules' = alert_rules
                        /\ settings_history' = settings_history ]_vars

\* After a rule was created, an update that would give rule 1 a taken name failed.
C23_Witness ==
    /\ Cardinality(DOMAIN alert_rules) = Len(DefaultRules) + 1
    /\ \E r \in ReqIds :
          /\ Failed(r)
          /\ \E a \in asked[r] :
                /\ a.op = "update_alert_rule"
                /\ a.id \in DOMAIN alert_rules
                /\ \E k \in DOMAIN alert_rules : k # a.id /\ alert_rules[k].rule_name \in a.name

\* C24: a toggle_alert_rule call that finds its rule, and that no other change
\* of that rule's is_active overlaps, turns the stored is_active from 1 to 0 or
\* from 0 to 1 and leaves every other column and every other rule as it is;
\* two such calls one after the other give back the rule table they started
\* from.
C24_Toggle ==
    /\ [](\A id \in DOMAIN alert_rules :
              /\ alert_rules[id].is_active \in {0, 1}
              /\ ToggleRule(alert_rules, id)[id].is_active = 1 - alert_rules[id].is_active
              /\ ToggleRule(ToggleRule(alert_rules, id), id) = alert_rules)
    /\ [][ \A r \in ReqIds : \A c \in toggle_calls[r] :
              (toggle_calls'[r] = {} /\ c.rule_id \in DOMAIN alert_rules) =>
                  /\ DOMAIN alert_rules' = DOMAIN alert_rules
                  /\ \A k \in DOMAIN alert_rules :
                        IF k # c.rule_id
                        THEN alert_rules'[k] = alert_rules[k]
                        ELSE /\ alert_rules'[k] =
                                  [alert_rules[k] EXCEPT !.is_active = alert_rules'[k].is_active]
                             /\ c.current_status = alert_rules[k].is_active =>
                                  alert_rules'[k].is_active = 1 - alert_rules[k].is_active
                  /\ settings_history' = settings_history ]_vars

\* Rule 1 is active again after its second toggle.
C24_Witness ==
    /\ 1 \in DOMAIN alert_rules
    /\ alert_rules[1].is_active = 1
    /\ \E r \in ReqIds :
          /\ returned[r] = {[success |-> TRUE, message |-> "Rule activated"]}
          /\ \E a \in asked[r] : a.op = "toggle_alert_rule" /\ a.id = 1

\* C25: logged_in starts false; the dashboard page shows metrics or a polling
\* status, and a poll is made, only while logged_in is true; logged_in becomes
\* true only in a step that submits username 'admin' with password '1234';
\* submitting anything else leaves it false; when it becomes false again the
\* dashboard page is gone.
C25_LoginGating ==
    /\ logged_in = FALSE
    /\ []((metrics # {} \/ response # {} \/ status \in {"live", "down"}) => logged_in)
    /\ [][ /\ ((response' # response /\ response' # {}) \/ (metrics' # metrics /\ metrics' # {})
                  \/ (status' # status /\ status' \in {"live", "down"})) =>
                 (logged_in /\ logged_in')
           /\ (~logged_in /\ logged_in') =>
                 submitted' = {[username |-> "admin", password |-> "1234"]}
           /\ (submitted' # submitted /\ submitted' # {}
                  /\ submitted' # {[username |-> "admin", password |-> "1234"]}) =>
                 (~logged_in /\ ~logged_in')
           /\ (logged_in /\ ~logged_in') =>
                 (metrics' = {} /\ response' = {} /\ status' \notin {"live", "down"}) ]_vars

\* Logged in with admin / 1234, and the counts of a response are shown.
C25_Witness ==
    /\ logged_in
    /\ submitted = {[username |-> "admin", password |-> "1234"]}
    /\ status = "live"
    /\ metrics # {}

====
